---------------------------- MODULE Spec2Model ----------------------------
(***************************************************************************)
(* A model of the websocket notification client of go-plex-client          *)
(* (websocket_client.go): the dispatch table NotificationEvents, the       *)
(* set-up of SubscribeToNotifications, and the two goroutines it starts:   *)
(* the read task (lines 206-238) and the heartbeat task (lines 240-266).   *)
(*                                                                         *)
(* The connection c is the gorilla/websocket connection.  Of it the model  *)
(* keeps what the client can observe: whether Close has been called on it  *)
(* locally, and the result of each ReadJSON, WriteMessage and Close.  The  *)
(* peer and the network are the environment: they choose the frames, the   *)
(* closures and the failures.  While the connection is open a read can     *)
(* return a frame, a normal closure or a failure, and a write can succeed  *)
(* or fail; once Close has been called on it every read and every write    *)
(* fails.  Time is not counted: a tick and the close-wait timeout can      *)
(* happen whenever the heartbeat task waits for them.                      *)
(***************************************************************************)
EXTENDS Integers, Sequences, FiniteSets

(* ------------------------------ bounds --------------------------------- *)
\* inbound frames the peer delivers in one session
MaxFrames == 2
\* ticks of the heartbeat ticker in one session
MaxTicks == 2
\* times the caller fires the cancellation signal
MaxCancels == 2
\* registrations on one table in the specification of the table
MaxRegs == 4
\* the width of the integers of timestamp.go in the model: int64 in the
\* code (Unix() and the bitSize of ParseInt), IntBits bits here, so that
\* every value can be enumerated
IntBits == 5

(* ------------------------------ values --------------------------------- *)
\* the handler a caller registers; NoOp is the func(n){} of the constructor
NoOp == "noop"
Handlers == {"h1"}
\* the handlers of the specification of the table: two, so that a later
\* registration can differ from an earlier one
TableHandlers == {"h1", "h2"}

\* the kinds NewNotificationEvents seeds
RecognizedKinds ==
    { "playing", "progress", "reachability", "transcode.end",
      "transcodeSession.start", "transcodeSession.end",
      "transcodeSession.update", "preference", "update.statechange",
      "activity", "backgroundProcessingQueue", "status", "timeline",
      "account" }

\* the values of notif.Type the peer sends in the model: two kinds a caller
\* can register, one that is only seeded, one with no entry
FrameKinds == {"playing", "transcodeSession.update", "reachability", "bogus"}
\* the payload container (notif.NotificationContainer) of the n-th frame of
\* the session: every frame carries a container of its own
PayloadOf(n) == [container |-> n]

(* ------------------------------ addresses ------------------------------ *)
\* A base address p.URL is a sequence of tokens.  The tokens url.Parse tells
\* apart:
HostTokens == {"plex.local:32400", "10.0.0.2:32400"}
PathTokens == {"/web/index.html", "/%zz"}
QueryTokens == {"X-Plex-Token=secret1"}
\* a path with an invalid escape: url.Parse fails on it
BadEscapes == {"/%zz"}
\* a first segment that starts with a digit and holds a colon: with no
\* scheme before it url.Parse fails on it
DigitColonSegments == {"10.0.0.2:32400"}

\* the values of p.URL in the model
Addresses ==
    { << "https", "://", "plex.local:32400" >>,
      << "http", "://", "plex.local:32400", "/web/index.html" >>,
      << "http", "://", "10.0.0.2:32400", "/web/index.html", "?",
         "X-Plex-Token=secret1" >>,
      << "plex.local:32400" >>,
      << "10.0.0.2:32400" >>,
      << "https", "://", "plex.local:32400", "/%zz" >> }
\* the values of p.Token in the model
Credentials == {"secret1", "secret2"}

\* the clients of the session specifications: one whose address parses and
\* one whose address does not
SessionClients ==
    { [URL |-> << "https", "://", "plex.local:32400" >>, Token |-> "secret1"],
      [URL |-> << "10.0.0.2:32400" >>, Token |-> "secret1"] }
\* the clients of the specification of the address derivation
AllClients == [URL : Addresses, Token : Credentials]

URLError == [ok |-> FALSE, Scheme |-> "", Host |-> "", Path |-> "",
             RawQuery |-> ""]

\* url.Parse(rawURL), on tokens: scheme "://" host [path] ["?" query] gives
\* the parts; an address with no "://" has no host (its text goes to the
\* scheme, the opaque part or the path)
Parse(u) ==
    IF \E i \in 1..Len(u) : u[i] \in BadEscapes THEN URLError
    ELSE IF Len(u) >= 2 /\ u[2] = "://"
    THEN LET hostAt == IF Len(u) >= 3 /\ u[3] \in HostTokens THEN 3 ELSE 2
             pathAt == IF Len(u) > hostAt /\ u[hostAt + 1] \in PathTokens
                       THEN hostAt + 1 ELSE hostAt
         IN  [ok |-> TRUE,
              Scheme |-> u[1],
              Host |-> IF hostAt = 3 THEN u[3] ELSE "",
              Path |-> IF pathAt > hostAt THEN u[pathAt] ELSE "",
              RawQuery |-> IF Len(u) >= pathAt + 2 /\ u[pathAt + 1] = "?"
                           THEN u[pathAt + 2] ELSE ""]
    ELSE IF u[1] \in DigitColonSegments THEN URLError
    ELSE [ok |-> TRUE, Scheme |-> "", Host |-> "", Path |-> u[1],
          RawQuery |-> ""]

\* url.URL.String(), as tokens
URLString(url) ==
    << url.Scheme, "://", url.Host, url.Path >>
        \o (IF url.RawQuery = "" THEN << >> ELSE << "?", url.RawQuery >>)

NotificationsPath == "/:/websockets/notifications"

\* WebsocketURL that keeps the path and the query of the base address
WebsocketURL_KeepPath(plexURL) ==
    [ok |-> TRUE, Scheme |-> "wss", Host |-> plexURL.Host,
     Path |-> plexURL.Path, RawQuery |-> plexURL.RawQuery]

\* line 191: url.URL{Scheme: "wss", Host: plexURL.Host, Path: ...}
WebsocketURL(plexURL) ==
    [ok |-> TRUE, Scheme |-> "wss", Host |-> plexURL.Host,
     Path |-> NotificationsPath, RawQuery |-> ""]

\* lines 193-195: http.Header{"X-Plex-Token": []string{p.Token}}
Headers(token) == [h \in {"X-Plex-Token"} |-> << token >>]

(* ------------------------------ timestamps ----------------------------- *)
MinInt == -(2 ^ (IntBits - 1))
MaxInt == 2 ^ (IntBits - 1) - 1
\* the nanoseconds of a time.Time in the model: none, and half a second
Nanos == {0, 500000000}
\* a Timestamp (a time.Time): its seconds since the epoch and its nanoseconds
Timestamps == [sec : MinInt..MaxInt, nsec : Nanos]

\* time.Time.Unix()
Unix(t) == t.sec
\* time.Unix(sec, nsec)
TimeUnix(sec, nsec) == [sec |-> sec, nsec |-> nsec]

\* a byte slice is a sequence of characters
DigitChars == << "0", "1", "2", "3", "4", "5", "6", "7", "8", "9" >>
IsDigit(c) == \E d \in 1..Len(DigitChars) : DigitChars[d] = c
DigitValue(c) == (CHOOSE d \in 1..Len(DigitChars) : DigitChars[d] = c) - 1

\* the digits of n >= 0 in the given base, most significant first
RECURSIVE FormatUint(_, _)
FormatUint(n, base) ==
    IF n < base THEN << DigitChars[n + 1] >>
    ELSE Append(FormatUint(n \div base, base), DigitChars[(n % base) + 1])

\* strconv.FormatInt(i, base)
FormatInt(i, base) ==
    IF i < 0 THEN << "-" >> \o FormatUint(-i, base) ELSE FormatUint(i, base)

\* the value of a sequence of digits in the given base
RECURSIVE ParseUint(_, _)
ParseUint(ds, base) ==
    IF ds = << >> THEN 0
    ELSE ParseUint(SubSeq(ds, 1, Len(ds) - 1), base) * base
            + DigitValue(ds[Len(ds)])

\* strconv.ParseInt(s, base, bitSize): an optional sign and one or more
\* digits; err is "nil", "syntax" (ErrSyntax) or "range" (ErrRange)
ParseInt(s, base, bitSize) ==
    LET signed == s # << >> /\ s[1] \in {"+", "-"}
        neg == s # << >> /\ s[1] = "-"
        ds == IF signed THEN Tail(s) ELSE s
    IN  IF ds = << >> \/ \E i \in 1..Len(ds) : ~IsDigit(ds[i])
        THEN [n |-> 0, err |-> "syntax"]
        ELSE LET un == ParseUint(ds, base)
                 cutoff == 2 ^ (bitSize - 1)
             IN  IF ~neg /\ un >= cutoff
                 THEN [n |-> cutoff - 1, err |-> "range"]
                 ELSE IF neg /\ un > cutoff
                 THEN [n |-> -cutoff, err |-> "range"]
                 ELSE [n |-> IF neg THEN -un ELSE un, err |-> "nil"]

\* inputs of UnmarshalJSON other than the output of MarshalJSON: the empty
\* slice, null, a JSON string, a fraction, an exponent, text, a lone sign,
\* a space before the digits, an underscore between them, a number out of
\* the range of the integer, a number with a plus sign, and leading zeros
GivenInputs ==
    { << >>,
      << "n", "u", "l", "l" >>,
      << "\"", "1", "2", "\"" >>,
      << "1", ".", "5" >>,
      << "1", "e", "3" >>,
      << "a", "b" >>,
      << "-" >>,
      << " ", "1" >>,
      << "1", "_", "0" >>,
      << "9", "9", "9" >>,
      << "-", "9", "9", "9" >>,
      << "+", "7" >>,
      << "0", "0", "7" >> }

VARIABLES
    p,          \* the Plex client: p.URL (as tokens) and p.Token
    dialed,     \* the arguments of the call of Dial, << >> before it
    events,     \* NotificationEvents.events: kind -> handler
    pc,         \* SubscribeToNotifications: "init", "failed", "spawned"
    connOpen,   \* c: dialled and Close not yet called on it
    done,       \* the channel done is closed
    interrupt,  \* times the cancellation signal has fired
    ticker,     \* "none", "running", "stopped"
    ticks,      \* values the heartbeat task has received from ticker.C
    rpc,        \* read task: "none","read","handler","deferDone","deferClose","exited"
    hpc,        \* heartbeat task: "none","select","wait","exited"
    hbExit,     \* how the heartbeat task left the inner select: "", "done", "timeout"
    rlog,       \* results of ReadJSON, in order
    wlog,       \* WriteMessage calls, in order
    closeLog,   \* the tasks that called c.Close(), in order
    cbLog,      \* invocations of errCb and doneCb, in order
    calls,      \* invocations of event handlers, in order
    regs,       \* the calls of OnPlaying and OnTranscodeUpdate, in order,
                \* kept (regs.on) in the specification of the table only
    ts          \* a Timestamp and its JSON, in the specification of
                \* timestamp.go only: the receiver *t of UnmarshalJSON
                \* (recv), the bytes s and where they came from (src, orig),
                \* the receiver before the last UnmarshalJSON (prev) and
                \* the error it returned (err; "none" before the call)

\* the state of a session
sessionVars == << p, dialed, events, pc, connOpen, done, interrupt, ticker, ticks,
                 rpc, hpc, hbExit, rlog, wlog, closeLog, cbLog, calls, regs >>

vars == << p, dialed, events, pc, connOpen, done, interrupt, ticker, ticks, rpc, hpc,
           hbExit, rlog, wlog, closeLog, cbLog, calls, regs, ts >>

(* --------------------------- dispatch table ---------------------------- *)
\* NewNotificationEvents: every recognized kind starts with the no-op handler
NewNotificationEvents == [k \in RecognizedKinds |-> NoOp]

\* Register that keeps the handler a caller registered earlier
Register_KeepFirst(e, kind, fn) ==
    [k \in DOMAIN e \cup {kind} |->
        IF k = kind /\ (k \notin DOMAIN e \/ e[k] = NoOp) THEN fn ELSE e[k]]

\* e.events[kind] = fn
Register(e, kind, fn) ==
    [k \in DOMAIN e \cup {kind} |-> IF k = kind THEN fn ELSE e[k]]

\* the history of registrations after one more, where it is kept
Registered(kind, fn) ==
    IF regs.on
    THEN [regs EXCEPT !.log = Append(regs.log, [kind |-> kind, fn |-> fn])]
    ELSE regs
\* the history, where it is kept, has room for one more registration
RoomToRegister == regs.on => Len(regs.log) < MaxRegs

\* lines 173-175
OnPlaying(fn) ==
    /\ RoomToRegister
    /\ events' = Register(events, "playing", fn)
    /\ regs' = Registered("playing", fn)
    /\ UNCHANGED << p, ts, dialed, pc, connOpen, done, interrupt, ticker, ticks, rpc, hpc, hbExit,
                    rlog, wlog, closeLog, cbLog, calls >>

\* lines 178-180
OnTranscodeUpdate(fn) ==
    /\ RoomToRegister
    /\ events' = Register(events, "transcodeSession.update", fn)
    /\ regs' = Registered("transcodeSession.update", fn)
    /\ UNCHANGED << p, ts, dialed, pc, connOpen, done, interrupt, ticker, ticks, rpc, hpc, hbExit,
                    rlog, wlog, closeLog, cbLog, calls >>

\* the registrations the package offers a caller: events is unexported and
\* OnPlaying and OnTranscodeUpdate are the only methods that write to it.
\* The caller of the session specifications registers before it subscribes.
Registration ==
    \/ \E fn \in Handlers : pc = "init" /\ OnPlaying(fn)
    \/ \E fn \in Handlers : pc = "init" /\ OnTranscodeUpdate(fn)

(* ------------------------------ callbacks ------------------------------ *)
\* errCb(err), called by task `by`
errCb(by, err) == Append(cbLog, [cb |-> "onError", by |-> by, err |-> err])
\* doneCb(), called by task `by`
doneCb(by) == Append(cbLog, [cb |-> "onDone", by |-> by, err |-> ""])

InitWith(clients) ==
    /\ p \in clients
    /\ dialed = << >>
    /\ events = NewNotificationEvents
    /\ pc = "init"
    /\ connOpen = FALSE
    /\ done = FALSE
    /\ interrupt = 0
    /\ ticker = "none"
    /\ ticks = 0
    /\ rpc = "none"
    /\ hpc = "none"
    /\ hbExit = ""
    /\ rlog = << >>
    /\ wlog = << >>
    /\ closeLog = << >>
    /\ cbLog = << >>
    /\ calls = << >>

\* no history of registrations is kept
NoHistory == regs = [on |-> FALSE, log |-> << >>]
\* the history of registrations is kept, and is empty
EmptyHistory == regs = [on |-> TRUE, log |-> << >>]

\* no Timestamp is in play
NoTimestamp ==
    ts = [recv |-> TimeUnix(0, 0), s |-> << >>, src |-> "none",
          orig |-> TimeUnix(0, 0), prev |-> TimeUnix(0, 0), err |-> "none"]

Init == InitWith(SessionClients) /\ NoHistory /\ NoTimestamp

(* ------------------------------- set-up -------------------------------- *)
\* SetupFailed without the return: the set-up reports the failure and goes on
\* to start the two tasks
SetupFailed_NoReturn(err) ==
    /\ pc' = "failed"
    /\ cbLog' = errCb("setup", err)
    /\ connOpen' = TRUE
    /\ done' = FALSE
    /\ rpc' = "read"
    /\ hpc' = "select"
    /\ ticker' = "running"

\* lines 186-189 and 199-202: errCb(err); return.  No goroutine is started.
SetupFailed(err) ==
    /\ pc' = "failed"
    /\ cbLog' = errCb("setup", err)
    /\ UNCHANGED << connOpen, done, ticker, rpc, hpc >>

\* lines 204-266: make(chan), go read task, go heartbeat task
Spawn ==
    /\ pc' = "spawned"
    /\ connOpen' = TRUE
    /\ done' = FALSE
    /\ rpc' = "read"
    /\ hpc' = "select"
    /\ ticker' = "running"
    /\ UNCHANGED cbLog

\* lines 184-202: url.Parse(p.URL) fails or gives plexURL, as the address
\* decides; Dial is called with the derived URL and the headers and fails or
\* succeeds, as the server decides
SubscribeToNotifications ==
    /\ pc = "init"
    /\ LET plexURL == Parse(p.URL) IN
          IF ~plexURL.ok
          THEN /\ SetupFailed("parse")
               /\ dialed' = dialed
          ELSE /\ dialed' = Append(dialed,
                                  [url |-> URLString(WebsocketURL(plexURL)),
                                   headers |-> Headers(p.Token)])
               /\ \E dialOk \in BOOLEAN :
                     IF ~dialOk THEN SetupFailed("dial") ELSE Spawn
    /\ UNCHANGED << p, ts, regs, ticks, events, interrupt, hbExit, rlog, wlog,
                    closeLog, calls >>

\* the caller fires the cancellation signal (a send on, or the close of,
\* the channel interrupt)
Cancel ==
    /\ interrupt < MaxCancels
    /\ interrupt' = interrupt + 1
    /\ UNCHANGED << p, ts, regs, dialed, events, pc, connOpen, done, ticker, ticks, rpc, hpc,
                    hbExit, rlog, wlog, closeLog, cbLog, calls >>

(* ------------------------------ read task ------------------------------ *)
Frame(k, notif) == [res |-> "frame", type |-> k, payload |-> notif]
Failure(r) == [res |-> r, type |-> "", payload |-> PayloadOf(0)]

\* Dispatch with the handler looked up under a fixed key
Dispatch_FixedKey(k, notif) ==
    IF k \in DOMAIN events
    THEN /\ calls' = Append(calls, [handler |-> events["playing"],
                                    type |-> "playing", payload |-> notif,
                                    frame |-> Len(rlog) + 1,
                                    returned |-> FALSE])
         /\ rpc' = "handler"
    ELSE /\ calls' = calls
         /\ rpc' = "read"

\* Dispatch that returns from the read task on a kind with no entry
Dispatch_UnknownFatal(k, notif) ==
    IF k \in DOMAIN events
    THEN /\ calls' = Append(calls, [handler |-> events[k], type |-> k,
                                    payload |-> notif, frame |-> Len(rlog) + 1,
                                    returned |-> FALSE])
         /\ rpc' = "handler"
    ELSE /\ calls' = calls
         /\ rpc' = "deferDone"

\* Dispatch that starts the handler (go eventCallback(...)) and does not
\* wait for it
Dispatch_Async(k, notif) ==
    IF k \in DOMAIN events
    THEN /\ calls' = Append(calls, [handler |-> events[k], type |-> k,
                                    payload |-> notif, frame |-> Len(rlog) + 1,
                                    returned |-> FALSE])
         /\ rpc' = "read"
    ELSE /\ calls' = calls
         /\ rpc' = "read"

\* lines 229-236: the look-up in events and the call of the handler
Dispatch(k, notif) ==
    IF k \in DOMAIN events
    THEN /\ calls' = Append(calls, [handler |-> events[k], type |-> k,
                                    payload |-> notif, frame |-> Len(rlog) + 1,
                                    returned |-> FALSE])
         /\ rpc' = "handler"
    ELSE /\ calls' = calls
         /\ rpc' = "read"

\* line 212 returns a decoded frame: the connection is open and the peer
\* has sent a well-formed frame
ReadFrame ==
    /\ rpc = "read"
    /\ connOpen
    /\ Len(rlog) < MaxFrames
    /\ \E k \in FrameKinds :
          /\ rlog' = Append(rlog, Frame(k, PayloadOf(Len(rlog) + 1)))
          /\ Dispatch(k, PayloadOf(Len(rlog) + 1))
    /\ UNCHANGED << p, ts, regs, dialed, events, pc, connOpen, done, interrupt, ticker, ticks,
                    hpc, hbExit, wlog, closeLog, cbLog >>

\* line 236: the handler returns, the loop reads again
HandlerReturn ==
    /\ rpc = "handler"
    /\ rpc' = "read"
    /\ calls' = [calls EXCEPT ![Len(calls)].returned = TRUE]
    /\ UNCHANGED << p, ts, regs, dialed, events, pc, connOpen, done, interrupt, ticker, ticks,
                    hpc, hbExit, rlog, wlog, closeLog, cbLog >>

\* OnNormalClosure without the call of doneCb
OnNormalClosure_Silent ==
    /\ cbLog' = cbLog
    /\ rpc' = "deferDone"

\* OnNormalClosure without the return: the loop reads again
OnNormalClosure_NoReturn ==
    /\ cbLog' = doneCb("read")
    /\ rpc' = "read"

\* lines 215-218: a close error with the normal-closure code: doneCb(); return
OnNormalClosure ==
    /\ cbLog' = doneCb("read")
    /\ rpc' = "deferDone"

\* OnReadError without the return: the loop reads again
OnReadError_NoReturn(err) ==
    /\ cbLog' = errCb("read", err)
    /\ rpc' = "read"

\* OnReadError that leaves the read task without raising done
OnReadError_NoDone(err) ==
    /\ cbLog' = errCb("read", err)
    /\ rpc' = "deferClose"

\* lines 221-225: any other error: errCb(err); return
OnReadError(err) ==
    /\ cbLog' = errCb("read", err)
    /\ rpc' = "deferDone"

\* line 212 returns the peer's close frame with code 1000
ReadNormalClosure ==
    /\ rpc = "read"
    /\ connOpen
    /\ rlog' = Append(rlog, Failure("normalClosure"))
    /\ OnNormalClosure
    /\ UNCHANGED << p, ts, regs, dialed, events, pc, connOpen, done, interrupt, ticker, ticks,
                    hpc, hbExit, wlog, closeLog, calls >>

\* line 212 fails while the connection is open: the body does not decode
\* into the envelope ("decode"), or the transport fails or the peer closes
\* with another code ("transport")
ReadErrorPeer ==
    /\ rpc = "read"
    /\ connOpen
    /\ \E e \in {"decode", "transport"} :
          /\ rlog' = Append(rlog, Failure(e))
          /\ OnReadError(e)
    /\ UNCHANGED << p, ts, regs, dialed, events, pc, connOpen, done, interrupt, ticker, ticks,
                    hpc, hbExit, wlog, closeLog, calls >>

\* ReadErrorClosed that takes the failure for a normal closure
ReadErrorClosed_AsNormal ==
    /\ rpc = "read"
    /\ ~connOpen
    /\ rlog' = Append(rlog, Failure("closed"))
    /\ OnNormalClosure
    /\ UNCHANGED << p, ts, regs, dialed, events, pc, connOpen, done, interrupt, ticker, ticks,
                    hpc, hbExit, wlog, closeLog, calls >>

\* line 212 on a connection Close has been called on: the read fails with
\* "use of closed network connection", which is no close error
ReadErrorClosed ==
    /\ rpc = "read"
    /\ ~connOpen
    /\ rlog' = Append(rlog, Failure("closed"))
    /\ OnReadError("closed")
    /\ UNCHANGED << p, ts, regs, dialed, events, pc, connOpen, done, interrupt, ticker, ticks,
                    hpc, hbExit, wlog, closeLog, calls >>

\* ReadDeferCloseDone with a c.Close() of its own, before the deferred one
ReadDeferCloseDone_AlsoClose ==
    /\ rpc = "deferDone"
    /\ done' = TRUE
    /\ rpc' = "deferClose"
    /\ connOpen' = FALSE
    /\ closeLog' = Append(closeLog, "read")
    /\ UNCHANGED << p, ts, regs, dialed, events, pc, interrupt, ticker, ticks, hpc, hbExit, rlog, wlog,
                    cbLog, calls >>

\* line 208, the deferred call that runs first: close(done)
ReadDeferCloseDone ==
    /\ rpc = "deferDone"
    /\ done' = TRUE
    /\ rpc' = "deferClose"
    /\ UNCHANGED << p, ts, regs, dialed, events, pc, connOpen, interrupt, ticker, ticks, hpc,
                    hbExit, rlog, wlog, closeLog, cbLog, calls >>

\* the result of the i-th c.Close() of the session: Close on a connection
\* that is closed already returns an error
CloseOk(i) == i = 1

\* c.Close() by task `by`; both callers drop the result
Close(by) ==
    /\ connOpen' = FALSE
    /\ closeLog' = Append(closeLog, by)

\* ReadDeferConnClose without the deferred c.Close()
ReadDeferConnClose_NoClose ==
    /\ rpc = "deferClose"
    /\ rpc' = "exited"
    /\ UNCHANGED << p, ts, regs, dialed, events, pc, connOpen, done, interrupt, ticker, ticks, hpc, hbExit,
                    rlog, wlog, closeLog, cbLog, calls >>

\* line 207, the deferred call that runs last: c.Close()
ReadDeferConnClose ==
    /\ rpc = "deferClose"
    /\ Close("read")
    /\ rpc' = "exited"
    /\ UNCHANGED << p, ts, regs, dialed, events, pc, done, interrupt, ticker, ticks, hpc, hbExit,
                    rlog, wlog, cbLog, calls >>

(* ---------------------------- heartbeat task --------------------------- *)
\* the results c.WriteMessage can have: an error once Close has been called
\* on the connection, success or a transport error while it is open
WriteResults == IF connOpen THEN {TRUE, FALSE} ELSE {FALSE}

\* websocket.CloseNormalClosure
CloseNormalClosure == 1000
\* websocket.FormatCloseMessage(code, text): the body of a close frame
FormatCloseMessage(code, text) == [code |-> code, text |-> text]
\* []byte(t.String()): the body of a liveness frame
TimeText == [code |-> 0, text |-> "time"]

\* c.WriteMessage(op, data) with result ok
Write(op, data, ok) ==
    Append(wlog, [op |-> op, data |-> data, open |-> connOpen, ok |-> ok])

\* Tick that drops the error of a failed write
Tick_Silent ==
    /\ hpc = "select"
    /\ ticks < MaxTicks
    /\ ticks' = ticks + 1
    /\ \E ok \in WriteResults : wlog' = Write("text", TimeText, ok)
    /\ UNCHANGED << p, ts, regs, dialed, events, pc, connOpen, done, interrupt, ticker,
                    rpc, hpc, hbExit, rlog, closeLog, cbLog, calls >>

\* Tick that writes the liveness frame a second time when the write failed
Tick_Retry ==
    /\ hpc = "select"
    /\ ticks < MaxTicks
    /\ ticks' = ticks + 1
    /\ \E ok \in WriteResults :
          /\ wlog' = IF ok THEN Write("text", TimeText, ok)
                     ELSE Append(Write("text", TimeText, ok),
                                 [op |-> "text", data |-> TimeText,
                                  open |-> connOpen, ok |-> FALSE])
          /\ cbLog' = IF ok THEN cbLog ELSE errCb("heartbeat", "write")
    /\ UNCHANGED << p, ts, regs, dialed, events, pc, connOpen, done, interrupt, ticker,
                    rpc, hpc, hbExit, rlog, closeLog, calls >>

\* Tick that returns from the heartbeat task when the write failed
Tick_ExitOnFailure ==
    /\ hpc = "select"
    /\ ticks < MaxTicks
    /\ ticks' = ticks + 1
    /\ \E ok \in WriteResults :
          /\ wlog' = Write("text", TimeText, ok)
          /\ cbLog' = IF ok THEN cbLog ELSE errCb("heartbeat", "write")
          /\ hpc' = IF ok THEN hpc ELSE "exited"
          /\ ticker' = IF ok THEN ticker ELSE "stopped"
    /\ UNCHANGED << p, ts, regs, dialed, events, pc, connOpen, done, interrupt,
                    rpc, hbExit, rlog, closeLog, calls >>

\* Tick that closes the connection when the write failed
Tick_CloseOnFailure ==
    /\ hpc = "select"
    /\ ticks < MaxTicks
    /\ ticks' = ticks + 1
    /\ \E ok \in WriteResults :
          /\ wlog' = Write("text", TimeText, ok)
          /\ cbLog' = IF ok THEN cbLog ELSE errCb("heartbeat", "write")
          /\ connOpen' = IF ok THEN connOpen ELSE FALSE
          /\ closeLog' = IF ok THEN closeLog ELSE Append(closeLog, "heartbeat")
    /\ UNCHANGED << p, ts, regs, dialed, events, pc, done, interrupt, ticker,
                    rpc, hpc, hbExit, rlog, calls >>

\* lines 246-251: a tick: write the liveness frame, errCb(err) on failure,
\* and select again
Tick ==
    /\ hpc = "select"
    /\ ticks < MaxTicks
    /\ ticks' = ticks + 1
    /\ \E ok \in WriteResults :
          /\ wlog' = Write("text", TimeText, ok)
          /\ cbLog' = IF ok THEN cbLog ELSE errCb("heartbeat", "write")
    /\ UNCHANGED << p, ts, regs, dialed, events, pc, connOpen, done, interrupt, ticker,
                    rpc, hpc, hbExit, rlog, closeLog, calls >>

\* Interrupt whose close frame carries another code than normal closure
Interrupt_OtherCode ==
    /\ hpc = "select"
    /\ interrupt > 0
    /\ \E ok \in WriteResults :
          wlog' = Write("close",
                        FormatCloseMessage(CloseNormalClosure + 1, ""), ok)
    /\ hpc' = "wait"
    /\ UNCHANGED << p, ts, regs, dialed, events, pc, connOpen, done, interrupt, ticker, ticks,
                    rpc, hbExit, rlog, closeLog, cbLog, calls >>

\* Interrupt that reports a failed write of the close frame
Interrupt_ReportsFailure ==
    /\ hpc = "select"
    /\ interrupt > 0
    /\ \E ok \in WriteResults :
          /\ wlog' = Write("close",
                           FormatCloseMessage(CloseNormalClosure, ""), ok)
          /\ cbLog' = IF ok THEN cbLog ELSE errCb("heartbeat", "write")
    /\ hpc' = "wait"
    /\ UNCHANGED << p, ts, regs, dialed, events, pc, connOpen, done, interrupt, ticker, ticks,
                    rpc, hbExit, rlog, closeLog, calls >>

\* lines 252-255: the cancellation signal is received: write the close
\* frame, ignore the result, and wait
Interrupt ==
    /\ hpc = "select"
    /\ interrupt > 0
    /\ \E ok \in WriteResults :
          wlog' = Write("close", FormatCloseMessage(CloseNormalClosure, ""), ok)
    /\ hpc' = "wait"
    /\ UNCHANGED << p, ts, regs, dialed, events, pc, connOpen, done, interrupt, ticker, ticks,
                    rpc, hbExit, rlog, closeLog, cbLog, calls >>

\* WaitDone without the return of line 263: the outer loop selects again
WaitDone_NoReturn ==
    /\ hpc = "wait"
    /\ done
    /\ hpc' = "select"
    /\ hbExit' = "done"
    /\ UNCHANGED << p, ts, regs, dialed, ticker, ticks, events, pc, connOpen, done, interrupt, rpc,
                    rlog, wlog, closeLog, cbLog, calls >>

\* WaitDone with a c.Close() of the heartbeat task's own
WaitDone_AlsoClose ==
    /\ hpc = "wait"
    /\ done
    /\ hpc' = "exited"
    /\ hbExit' = "done"
    /\ ticker' = "stopped"
    /\ Close("heartbeat")
    /\ UNCHANGED << p, ts, regs, dialed, ticks, events, pc, done, interrupt, rpc, rlog,
                    wlog, cbLog, calls >>

\* lines 258 and 263, then the deferred ticker.Stop(): done is closed
WaitDone ==
    /\ hpc = "wait"
    /\ done
    /\ hpc' = "exited"
    /\ hbExit' = "done"
    /\ ticker' = "stopped"
    /\ UNCHANGED << p, ts, regs, dialed, ticks, events, pc, connOpen, done, interrupt, rpc, rlog,
                    wlog, closeLog, cbLog, calls >>

\* OnTimeout without c.Close()
OnTimeout_NoClose ==
    /\ UNCHANGED << connOpen, closeLog >>
    /\ hpc' = "exited"
    /\ hbExit' = "timeout"
    /\ ticker' = "stopped"

\* lines 259-263, then the deferred ticker.Stop(): a second has passed
OnTimeout ==
    /\ Close("heartbeat")
    /\ hpc' = "exited"
    /\ hbExit' = "timeout"
    /\ ticker' = "stopped"

\* WaitTimeout that is taken only once the read task has exited
WaitTimeout_AfterRead ==
    /\ hpc = "wait"
    /\ rpc = "exited"
    /\ OnTimeout
    /\ UNCHANGED << p, ts, regs, dialed, ticks, events, pc, done, interrupt, rpc, rlog, wlog,
                    cbLog, calls >>

WaitTimeout ==
    /\ hpc = "wait"
    /\ OnTimeout
    /\ UNCHANGED << p, ts, regs, dialed, ticks, events, pc, done, interrupt, rpc, rlog, wlog,
                    cbLog, calls >>

(* ------------------------------ timestamp.go --------------------------- *)
\* UnmarshalJSON that assigns the parsed value before it looks at the error
UnmarshalJSON_AssignFirst ==
    /\ ts.src # "none"
    /\ ts.err = "none"
    /\ LET r == ts.s
           q == ParseInt(r, 10, IntBits)
       IN  ts' = [ts EXCEPT !.prev = ts.recv, !.err = q.err,
                            !.recv = TimeUnix(q.n, 0)]
    /\ UNCHANGED sessionVars

\* lines 14-16: t.MarshalJSON() gives the bytes of FormatInt(Unix(t), 10)
MarshalJSON(t) ==
    /\ ts.src = "none"
    /\ ts' = [ts EXCEPT !.s = FormatInt(Unix(t), 10), !.src = "marshal",
                        !.orig = t]
    /\ UNCHANGED sessionVars

\* a caller, or the JSON decoder, has bytes of its own for UnmarshalJSON
GivenJSON(s) ==
    /\ ts.src = "none"
    /\ ts' = [ts EXCEPT !.s = s, !.src = "given"]
    /\ UNCHANGED sessionVars

\* lines 19-27: t.UnmarshalJSON(s): ParseInt; on an error return it; else
\* *t = time.Unix(q, 0) and return nil
UnmarshalJSON ==
    /\ ts.src # "none"
    /\ ts.err = "none"
    /\ LET r == ts.s
           q == ParseInt(r, 10, IntBits)
       IN  IF q.err # "nil"
           THEN ts' = [ts EXCEPT !.prev = ts.recv, !.err = q.err]
           ELSE ts' = [ts EXCEPT !.prev = ts.recv, !.err = "nil",
                                 !.recv = TimeUnix(q.n, 0)]
    /\ UNCHANGED sessionVars

\* a receiver with any value, and nothing marshalled or given yet
TimestampInit ==
    /\ InitWith(SessionClients)
    /\ NoHistory
    /\ ts \in [recv : Timestamps, s : {<< >>}, src : {"none"},
                orig : {TimeUnix(0, 0)}, prev : {TimeUnix(0, 0)},
                err : {"none"}]

TimestampNext ==
    \/ \E t \in Timestamps : MarshalJSON(t)
    \/ \E s \in GivenInputs : GivenJSON(s)
    \/ UnmarshalJSON

TimestampSpec == TimestampInit /\ [][TimestampNext]_vars

(* --------------------------- specifications ---------------------------- *)
\* the steps of one session: the set-up, the caller's cancellation, the
\* read task and the heartbeat task
SessionNext ==
    \/ SubscribeToNotifications
    \/ Cancel
    \/ ReadFrame
    \/ HandlerReturn
    \/ ReadNormalClosure
    \/ ReadErrorPeer
    \/ ReadErrorClosed
    \/ ReadDeferCloseDone
    \/ ReadDeferConnClose
    \/ Tick
    \/ Interrupt
    \/ WaitDone
    \/ WaitTimeout

Next ==
    \/ Registration
    \/ SessionNext

Spec == Init /\ [][Next]_vars

\* The set-up alone, for every client of the model: the registrations, the
\* subscription and the caller's cancellation.
UrlNext ==
    \/ Registration
    \/ SubscribeToNotifications
    \/ Cancel

UrlInit == InitWith(AllClients) /\ NoHistory /\ NoTimestamp

UrlSpec == UrlInit /\ [][UrlNext]_vars

\* The dispatch table alone: a caller builds it with NewNotificationEvents
\* and calls OnPlaying and OnTranscodeUpdate on it, with either handler, in
\* any order, up to MaxRegs times.
TableNext ==
    \/ \E fn \in TableHandlers : OnPlaying(fn)
    \/ \E fn \in TableHandlers : OnTranscodeUpdate(fn)

TableInit == InitWith(SessionClients) /\ EmptyHistory /\ NoTimestamp

TableSpec == TableInit /\ [][TableNext]_vars

\* A caller that keeps the table it passed to SubscribeToNotifications and
\* calls OnPlaying and OnTranscodeUpdate on it whenever it likes: the methods
\* have no guard and the session holds the same map (events is passed by
\* pointer, line 183, and read at line 229).
CallerNext ==
    \/ \E fn \in Handlers : OnPlaying(fn)
    \/ \E fn \in Handlers : OnTranscodeUpdate(fn)
    \/ SessionNext

CallerSpec == Init /\ [][CallerNext]_vars

\* The scheduling the Go runtime and the timers give: a goroutine that can
\* take a step takes it, time.After fires, a select with a ready case
\* returns, and a read on a connection Close was called on fails.  Handlers
\* and callbacks are the caller's code and are taken to return.  Nothing is
\* asked of the peer: it may stay silent for ever.
Fairness ==
    /\ WF_vars(HandlerReturn)
    /\ WF_vars(ReadErrorClosed)
    /\ WF_vars(ReadDeferCloseDone)
    /\ WF_vars(ReadDeferConnClose)
    /\ WF_vars(Interrupt)
    /\ WF_vars(WaitTimeout)

\* The scheduling of the heartbeat goroutine alone: nothing is asked of the
\* read task, of the handlers or of the peer, so the read task may stay
\* blocked in ReadJSON or inside a handler for ever.
HeartbeatFairness ==
    /\ WF_vars(Interrupt)
    /\ WF_vars(WaitTimeout)

HeartbeatFairSpec == Init /\ [][SessionNext]_vars /\ HeartbeatFairness

\* A session on the table as NewNotificationEvents builds it.  The steps of
\* a session read of the table only whether a kind has an entry, and a
\* registration (OnPlaying, OnTranscodeUpdate) overwrites an entry that is
\* already there, so the sessions of the other tables take the same steps.
FairSpec == Init /\ [][SessionNext]_vars /\ Fairness

(* ------------------------------ properties ----------------------------- *)
IsOnError(e) == e.cb = "onError"
IsOnDone(e) == e.cb = "onDone"
ByRead(e) == e.by = "read"
ByHeartbeat(e) == e.by = "heartbeat"
\* the callbacks the read task has invoked, in order
ReadCbs == SelectSeq(cbLog, ByRead)
OnErrorCount == Len(SelectSeq(cbLog, IsOnError))
OnDoneCount == Len(SelectSeq(cbLog, IsOnDone))
CloseCount(by) == Cardinality({i \in 1..Len(closeLog) : closeLog[i] = by})
ReadReturned == rpc \in {"deferDone", "deferClose", "exited"}
ReadFailures == {"decode", "transport", "closed"}
\* the session is over: the set-up failed, or both tasks have exited
SessionEnded == pc = "failed" \/ (rpc = "exited" /\ hpc = "exited")
FullyClosed == ~connOpen /\ rpc = "exited" /\ hpc = "exited"
\* no write failed while the connection was open
NoTransportWriteFailure == \A i \in 1..Len(wlog) : wlog[i].open => wlog[i].ok
\* the peer sent frames of registered kinds only and then closed normally
PeerWellBehaved ==
    /\ Len(rlog) >= 1
    /\ rlog[Len(rlog)].res = "normalClosure"
    /\ \A i \in 1..(Len(rlog) - 1) :
          rlog[i].res = "frame" /\ rlog[i].type \in DOMAIN events

\* C1, as claimed: in every session onError and onDone are invoked at most
\* once in total, and once the session has ended exactly one of them has
\* been invoked exactly once.
C1_ExactlyOneCallback ==
    /\ Len(cbLog) <= 1
    /\ SessionEnded => Len(cbLog) = 1

\* C2, as claimed: the error callback is invoked at most once and the
\* completion callback is invoked at most once in a session.
C2_EachCallbackAtMostOnce ==
    /\ OnErrorCount <= 1
    /\ OnDoneCount <= 1

C5_NoWriteAfterClose == \A i \in 1..Len(wlog) : wlog[i].open

\* C6: once the session is established and the cancellation signal has
\* fired, the session eventually is fully closed (connection closed, both
\* tasks exited), whatever the peer does.
C6_CancelLeadsToClosed == (pc = "spawned" /\ interrupt > 0) ~> FullyClosed

\* C6's case: the session is fully closed after a cancellation the peer
\* never answered: the close-wait timed out and the read failed on the
\* closed connection.
C6_Witness ==
    /\ FullyClosed
    /\ interrupt > 0
    /\ hbExit = "timeout"
    /\ Len(rlog) >= 1
    /\ rlog[Len(rlog)].res = "closed"

\* C7: when url.Parse or Dial fails, errCb is invoked exactly once, with
\* that failure, doneCb is never invoked, no task is started, no frame is
\* read or written and no ticker is created.
C7_SetupFailure ==
    pc = "failed" =>
        /\ Len(cbLog) = 1
        /\ cbLog[1].cb = "onError"
        /\ cbLog[1].by = "setup"
        /\ cbLog[1].err \in {"parse", "dial"}
        /\ rpc = "none"
        /\ hpc = "none"
        /\ ticker = "none"
        /\ rlog = << >>
        /\ wlog = << >>
        /\ closeLog = << >>
        /\ calls = << >>

\* C7's case: the dial failed, and the caller has fired the cancellation
\* signal since.
C7_Witness ==
    /\ pc = "failed"
    /\ interrupt > 0
    /\ cbLog = << [cb |-> "onError", by |-> "setup", err |-> "dial"] >>

\* C8, as claimed: with no cancellation, a peer that sends frames of
\* registered kinds and then closes normally, and no write failing on the
\* open connection, every frame's handler is invoked once with the frame's
\* payload, onDone is invoked once and onError never.
C8_CleanSession ==
    (interrupt = 0 /\ PeerWellBehaved /\ NoTransportWriteFailure) =>
        /\ Len(calls) = Len(rlog) - 1
        /\ \A i \in 1..Len(calls) :
              /\ calls[i].frame = i
              /\ calls[i].handler = events[rlog[i].type]
              /\ calls[i].payload = rlog[i].payload
        /\ OnDoneCount = 1
        /\ OnErrorCount = 0

\* C9: when a read reports a normal closure, the read task invokes doneCb
\* once and errCb never, reads no further frame and returns.
C9_NormalClosure ==
    \A i \in 1..Len(rlog) :
        rlog[i].res = "normalClosure" =>
            /\ i = Len(rlog)
            /\ ReadCbs = << [cb |-> "onDone", by |-> "read", err |-> ""] >>
            /\ ReadReturned

\* C9's case: the read task has exited on a normal closure that followed
\* a frame.
C9_Witness ==
    /\ Len(rlog) = 2
    /\ rlog[1].res = "frame"
    /\ rlog[2].res = "normalClosure"
    /\ rpc = "exited"

\* C10: when a read reports a failure other than a normal closure (a
\* transport error, a body that does not decode, a closed connection),
\* the read task invokes errCb once with that failure and doneCb never,
\* invokes no handler for that read, reads no more and returns.
C10_ReadFailure ==
    \A i \in 1..Len(rlog) :
        rlog[i].res \in ReadFailures =>
            /\ i = Len(rlog)
            /\ ReadCbs = << [cb |-> "onError", by |-> "read",
                             err |-> rlog[i].res] >>
            /\ \A j \in 1..Len(calls) : calls[j].frame < i
            /\ ReadReturned

\* C10's case: the read task has exited on a frame that did not decode,
\* after a frame it dispatched.
C10_Witness ==
    /\ Len(rlog) = 2
    /\ rlog[1].res = "frame"
    /\ rlog[2].res = "decode"
    /\ Len(calls) = 1
    /\ rpc = "exited"

\* C11: the read task itself invokes no callback while it runs and exactly
\* one callback, once, by the time it returns: never both, never one twice,
\* never none.
C11_ReadTaskOneCallback ==
    Len(ReadCbs) = (IF ReadReturned THEN 1 ELSE 0)

\* C11's case: the read task has exited with its one callback while the
\* heartbeat task has invoked errCb twice.
C11_Witness ==
    /\ rpc = "exited"
    /\ Len(ReadCbs) = 1
    /\ Len(cbLog) = 3

\* the handler calls made for the i-th read
CallsFor(i) == {j \in 1..Len(calls) : calls[j].frame = i}

\* C12: for every decoded frame whose type has an entry in events, exactly
\* one handler call is made, it is the handler stored under that type, and
\* it receives that frame's payload container.
C12_DispatchByType ==
    \A i \in 1..Len(rlog) :
        (rlog[i].res = "frame" /\ rlog[i].type \in DOMAIN events) =>
            /\ Cardinality(CallsFor(i)) = 1
            /\ \A j \in CallsFor(i) :
                  /\ calls[j].type = rlog[i].type
                  /\ calls[j].handler = events[rlog[i].type]
                  /\ calls[j].payload = rlog[i].payload

\* C12's case: a "transcodeSession.update" frame went to the handler the
\* caller registered for it, while "playing" keeps the no-op handler.
C12_Witness ==
    /\ Len(calls) >= 1
    /\ calls[1].type = "transcodeSession.update"
    /\ calls[1].handler = "h1"
    /\ events["playing"] = NoOp

\* C13: for a decoded frame whose type has no entry in events no handler is
\* invoked, and right after it the read task has invoked no callback and
\* is reading the next frame.
C13_UnknownKindIgnored ==
    \A i \in 1..Len(rlog) :
        (rlog[i].res = "frame" /\ rlog[i].type \notin DOMAIN events) =>
            /\ CallsFor(i) = {}
            /\ i = Len(rlog) => (rpc = "read" /\ ReadCbs = << >>)

\* C13's case: after a frame of an unknown kind the read task read a
\* "playing" frame and called its handler.
C13_Witness ==
    /\ Len(rlog) = 2
    /\ rlog[1].type = "bogus"
    /\ rlog[2].type = "playing"
    /\ Len(calls) = 1
    /\ calls[1].frame = 2
    /\ cbLog = << >>

\* C14: the handler calls are in the order of the frames, and a handler
\* that has not returned is the one of the last frame read: the next read
\* begins only after it has returned, so no two handlers run together.
C14_InOrderOneAtATime ==
    /\ \A j, k \in 1..Len(calls) : j < k => calls[j].frame < calls[k].frame
    /\ \A j \in 1..Len(calls) :
          ~calls[j].returned =>
              /\ j = Len(calls)
              /\ calls[j].frame = Len(rlog)
              /\ rpc = "handler"

\* C14's case: the handler of the first frame has returned and the handler
\* of the second frame is running.
C14_Witness ==
    /\ Len(calls) = 2
    /\ calls[1].returned
    /\ ~calls[2].returned

CloseFrames == {i \in 1..Len(wlog) : wlog[i].op = "close"}
TextFrames == {i \in 1..Len(wlog) : wlog[i].op = "text"}

\* C15: however often the cancellation signal fires, the heartbeat task
\* sends at most one close frame, writes nothing after it, closes the
\* connection at most once, and has sent exactly one close frame once it
\* waits or has returned.
C15_CancelOnce ==
    /\ Cardinality(CloseFrames) <= 1
    /\ \A i \in CloseFrames : i = Len(wlog)
    /\ CloseCount("heartbeat") <= 1
    /\ hpc \in {"wait", "exited"} => Cardinality(CloseFrames) = 1
    /\ hbExit # "" => hpc = "exited"

\* C15's case: the signal fired twice and the heartbeat task has returned
\* after one close frame.
C15_Witness ==
    /\ interrupt = 2
    /\ hpc = "exited"
    /\ Cardinality(CloseFrames) = 1

\* C16, as claimed: before the subscription a caller can register a handler
\* of its own under any kind a frame can carry.
C16_AnyKindRegistrable ==
    pc = "init" =>
        \A k \in FrameKinds : \E fn \in Handlers :
            ENABLED (Registration /\ k \in DOMAIN events' /\ events'[k] = fn)

SessionTasks == {"read", "heartbeat"}
OnErrorsBy(t) == {i \in 1..Len(cbLog) : cbLog[i].cb = "onError" /\ cbLog[i].by = t}
FailedReads == {i \in 1..Len(rlog) : rlog[i].res \in ReadFailures}
FailedTextWrites == {i \in TextFrames : ~wlog[i].ok}
FailedCloseFrames == {i \in CloseFrames : ~wlog[i].ok}
FailedCloses == {i \in 1..Len(closeLog) : ~CloseOk(i)}

\* C17, as claimed: every failed read, liveness write, close-frame write
\* and close of a session is passed to onError exactly once.
C17_EveryFailureSurfaced ==
    Cardinality(OnErrorsBy("read")) + Cardinality(OnErrorsBy("heartbeat"))
        = Cardinality(FailedReads) + Cardinality(FailedTextWrites)
          + Cardinality(FailedCloseFrames) + Cardinality(FailedCloses)

\* C17, amended: every failed read and every failed liveness write is
\* passed to onError exactly once, by the task that made it; a failed
\* close-frame write and a failed close are passed to no callback.
C17_ReadAndTickFailuresSurfaced ==
    /\ Cardinality(OnErrorsBy("read")) = Cardinality(FailedReads)
    /\ \A i \in FailedReads : \A j \in OnErrorsBy("read") :
          cbLog[j].err = rlog[i].res
    /\ Cardinality(OnErrorsBy("heartbeat")) = Cardinality(FailedTextWrites)
    /\ \A j \in OnErrorsBy("heartbeat") : cbLog[j].err = "write"

\* C17's case: a liveness write, the close-frame write, a read and the
\* second close have failed, and onError has been invoked twice.
C17_Witness ==
    /\ Cardinality(FailedTextWrites) = 1
    /\ Cardinality(FailedCloseFrames) = 1
    /\ Cardinality(FailedReads) = 1
    /\ Cardinality(FailedCloses) = 1
    /\ Len(cbLog) = 2

\* C18: the liveness frames written are as many as the ticks the heartbeat
\* task has received: one write per tick and none without a tick.
C18_OneWritePerTick ==
    /\ Cardinality(TextFrames) = ticks
    /\ \A i \in TextFrames : wlog[i].data = TimeText
    /\ hpc = "none" => ticks = 0

\* C18's case: two ticks without cancellation, two liveness writes, the
\* first of which failed.
C18_Witness ==
    /\ interrupt = 0
    /\ ticks = 2
    /\ Len(wlog) = 2
    /\ ~wlog[1].ok
    /\ wlog[2].ok

\* the host of a base address: the token after "://" when it is a host
BaseHost(u) ==
    IF Len(u) >= 3 /\ u[2] = "://" /\ u[3] \in HostTokens THEN u[3] ELSE ""

\* C19: the URL handed to Dial is wss, "://", the host of the base address
\* and the notifications path, with nothing of the base address's path or
\* query; the credential is in the header X-Plex-Token only and nowhere in
\* the URL.
C19_DerivedURL ==
    \A i \in 1..Len(dialed) :
        LET u == dialed[i].url IN
        /\ u = << "wss", "://", BaseHost(p.URL), NotificationsPath >>
        /\ \A j \in 1..Len(u) : u[j] # p.Token /\ u[j] \notin QueryTokens
        /\ DOMAIN dialed[i].headers = {"X-Plex-Token"}
        /\ dialed[i].headers["X-Plex-Token"] = << p.Token >>

\* C19's case: a base address with a path and a query that carries a
\* credential has been dialled.
C19_Witness ==
    /\ Len(dialed) = 1
    /\ Len(p.URL) = 6
    /\ p.Token = "secret2"
    /\ dialed[1].url[3] = "10.0.0.2:32400"

\* C20: the heartbeat task has written exactly one close frame once it has
\* observed the cancellation (it waits or has returned) and none before; the
\* frame carries the normal-closure code and an empty text; a close frame is
\* written only after a cancellation; the wait ends by done or by the
\* timeout, and by done only when the read task has closed done.
C20_CloseFrameOnCancel ==
    /\ Cardinality(CloseFrames) = (IF hpc \in {"wait", "exited"} THEN 1 ELSE 0)
    /\ CloseFrames # {} => interrupt > 0
    /\ \A i \in CloseFrames :
          /\ wlog[i].data.code = CloseNormalClosure
          /\ wlog[i].data.text = ""
    /\ hpc = "wait" => hbExit = ""
    /\ hpc = "exited" => hbExit \in {"done", "timeout"}
    /\ hbExit = "done" => done

\* C20's case: after a cancellation the heartbeat task wrote its close frame
\* to the open connection, waited, and left the wait on done.
C20_Witness ==
    /\ interrupt > 0
    /\ hpc = "exited"
    /\ hbExit = "done"
    /\ \E i \in CloseFrames : wlog[i].ok

\* C21, as claimed: whenever the heartbeat task has returned, Close has been
\* called on the connection and the ticker has been stopped.
C21_ClosedBeforeReturn ==
    hpc = "exited" => (~connOpen /\ ticker = "stopped")

\* C22: the heartbeat task has left its loop only after it received the
\* cancellation signal and wrote the close frame; while no cancellation has
\* fired it is in its select, whatever its writes returned and whether or
\* not the read task has exited.
C22_ExitOnlyOnCancel ==
    /\ hpc \in {"wait", "exited"} => (interrupt > 0 /\ CloseFrames # {})
    /\ (pc = "spawned" /\ interrupt = 0) => (hpc = "select" /\ ticker = "running")
    /\ hpc = "exited" <=> hbExit # ""

\* C22's case: no cancellation has fired, the read task has exited, a
\* liveness write has failed, and the heartbeat task is still in its select.
C22_Witness ==
    /\ interrupt = 0
    /\ rpc = "exited"
    /\ \E i \in TextFrames : ~wlog[i].ok
    /\ hpc = "select"

\* a step in which a liveness write is made and fails
FailedTextWriteStep ==
    /\ Len(wlog') = Len(wlog) + 1
    /\ wlog'[Len(wlog')].op = "text"
    /\ ~wlog'[Len(wlog')].ok

\* C23: a step in which a liveness write fails calls errCb once for it and
\* leaves the heartbeat task in its select, with the ticker running and
\* without a close frame and without a Close; after it, the next tick writes
\* again.
C23_FailedSendKeepsTicking ==
    /\ [][FailedTextWriteStep =>
            /\ cbLog' = Append(cbLog, [cb |-> "onError", by |-> "heartbeat",
                                       err |-> "write"])
            /\ hpc = "select" /\ hpc' = "select"
            /\ ticker' = "running"
            /\ CloseFrames' = CloseFrames
            /\ closeLog' = closeLog
            /\ connOpen' = connOpen]_vars
    /\ []((/\ wlog # << >>
           /\ wlog[Len(wlog)].op = "text"
           /\ ~wlog[Len(wlog)].ok
           /\ ticks < MaxTicks) => ENABLED Tick)

\* C23's case: a liveness write failed on the open connection, the next tick
\* wrote again, and the heartbeat task is in its select with nothing closed.
C23_Witness ==
    /\ Len(wlog) = 2
    /\ wlog[1].op = "text" /\ ~wlog[1].ok /\ wlog[1].open
    /\ wlog[2].op = "text"
    /\ hpc = "select"
    /\ closeLog = << >>

\* C24, as claimed: a failed read or a failed liveness write is reported once
\* through onError and ends the task that made it: after a failed read the
\* read task has returned, and after a failed liveness write the heartbeat
\* task has returned, with nothing written after the failed write.
C24_FailureTerminatesTask ==
    /\ FailedReads # {} =>
          /\ ReadReturned
          /\ Cardinality(OnErrorsBy("read")) = 1
    /\ FailedTextWrites # {} =>
          /\ hpc = "exited"
          /\ Cardinality(OnErrorsBy("heartbeat")) = 1
          /\ \A i \in FailedTextWrites : i = Len(wlog)

\* C25, as claimed: once the cancellation signal has fired while the
\* heartbeat task is in its select, no step writes a further liveness frame:
\* the next step of the heartbeat task is the one that writes the close
\* frame and waits.
C25_CancelBeforeTick ==
    [][(interrupt > 0 /\ hpc = "select") =>
          /\ TextFrames' = TextFrames
          /\ hpc' # hpc => hpc' = "wait"]_vars

\* every write so far succeeded
AllWritesOk == \A i \in 1..Len(wlog) : wlog[i].ok
\* the last read returned the peer's normal closure
ClosedNormally == rlog # << >> /\ rlog[Len(rlog)].res = "normalClosure"
\* the close frame has been sent, the close-wait runs, the read task is
\* still in its loop and nothing has failed
AwaitingAnswer ==
    /\ hpc = "wait"
    /\ rpc \in {"read", "handler"}
    /\ AllWritesOk
    /\ FailedReads = {}
\* onDone once and nothing else, and one Close
CleanEnd ==
    /\ cbLog = << [cb |-> "onDone", by |-> "read", err |-> ""] >>
    /\ Len(closeLog) = 1

RegsFor(k) == {i \in 1..Len(regs.log) : regs.log[i].kind = k}
\* the last of them
LastRegFor(k) == CHOOSE i \in RegsFor(k) : \A j \in RegsFor(k) : j <= i

\* C27: after any sequence of registrations the table holds, for each kind,
\* the handler of the last registration for it, or the no-op handler when
\* the kind is recognized and was never registered, or no entry otherwise;
\* and the keys are those the constructor seeded.
C27_LastRegistrationWins ==
    /\ \A k \in RecognizedKinds \cup FrameKinds :
          IF RegsFor(k) # {}
          THEN k \in DOMAIN events /\ events[k] = regs.log[LastRegFor(k)].fn
          ELSE IF k \in RecognizedKinds
          THEN k \in DOMAIN events /\ events[k] = NoOp
          ELSE k \notin DOMAIN events
    /\ DOMAIN events = RecognizedKinds

\* C27's case: a kind was registered twice, with different handlers, and
\* another kind once in between.
C27_Witness ==
    /\ Len(regs.log) = 3
    /\ regs.log[1] = [kind |-> "playing", fn |-> "h1"]
    /\ regs.log[2].kind = "transcodeSession.update"
    /\ regs.log[3] = [kind |-> "playing", fn |-> "h2"]

\* the read task has started and has not exited
ReadRunning == rpc \in {"read", "handler", "deferDone", "deferClose"}

\* C28, as claimed: while the read task runs no step writes an entry of the
\* dispatch table.
C28_TableReadOnly ==
    [][ReadRunning => events' = events]_vars

\* the read task is blocked in ReadJSON or inside a handler
ReadBusy == rpc \in {"read", "handler"}

\* C29: while the read task is blocked in ReadJSON or inside a handler, a
\* tick of the heartbeat task can write its liveness frame and a fired
\* cancellation can be received; and with steps of the heartbeat task alone
\* a cancellation it can receive leads to its return, whatever the read
\* task does or fails to do.
C29_HeartbeatIndependent ==
    /\ []((ReadBusy /\ hpc = "select" /\ ticks < MaxTicks) => ENABLED Tick)
    /\ []((ReadBusy /\ hpc = "select" /\ interrupt > 0) => ENABLED Interrupt)
    /\ []((ReadBusy /\ hpc = "wait") => ENABLED WaitTimeout)
    /\ (hpc = "select" /\ interrupt > 0) ~> (hpc = "exited")

\* C29's case: the read task is inside a handler that has not returned, and
\* the heartbeat task has written a liveness frame and the close frame,
\* timed out, closed the connection and returned.
C29_Witness ==
    /\ rpc = "handler"
    /\ TextFrames # {}
    /\ CloseFrames # {}
    /\ hpc = "exited"
    /\ hbExit = "timeout"
    /\ closeLog = << "heartbeat" >>

\* C30: when the heartbeat task has timed out in its close-wait, and so has
\* closed the connection, while the read task is in ReadJSON, the read
\* fails, and the read task ends with onError for that failure as its one
\* callback; onDone is never invoked.
C30_TimeoutEndsInOnError ==
    (hbExit = "timeout" /\ rpc = "read") ~>
        (/\ rpc = "exited"
         /\ ReadCbs = << [cb |-> "onError", by |-> "read", err |-> "closed"] >>
         /\ OnDoneCount = 0
         /\ rlog[Len(rlog)].res = "closed")

\* C30's case: the heartbeat task timed out and closed the connection, the
\* pending read failed, and the read task reported it and exited.
C30_Witness ==
    /\ hbExit = "timeout"
    /\ rpc = "exited"
    /\ closeLog = << "heartbeat", "read" >>
    /\ rlog # << >>
    /\ rlog[Len(rlog)].res = "closed"
    /\ OnDoneCount = 0

\* C31: when both tasks have exited Close has been called on the
\* connection; done is closed exactly when the read task has passed its
\* deferred close(done), which it does on every exit, after its one
\* callback; the step that closes done is that step of the read task and no
\* other, and done is never open again.
C31_DoneRaisedOnceByReadTask ==
    /\ []((rpc = "exited" /\ hpc = "exited") => ~connOpen)
    /\ [](done <=> rpc \in {"deferClose", "exited"})
    /\ [](done => Len(ReadCbs) = 1)
    /\ [](ReadReturned => Len(ReadCbs) = 1)
    /\ [][done' # done =>
            /\ ~done /\ done'
            /\ rpc = "deferDone" /\ rpc' = "deferClose"
            /\ hpc' = hpc
            /\ cbLog' = cbLog]_vars

\* C31's case: a read failed, the read task reported it, raised done and
\* closed the connection, and the heartbeat task has left its wait on done.
C31_Witness ==
    /\ rpc = "exited"
    /\ hpc = "exited"
    /\ hbExit = "done"
    /\ done
    /\ ~connOpen
    /\ Len(ReadCbs) = 1
    /\ ReadCbs[1].cb = "onError"

\* C32: the step in which the heartbeat task receives the cancellation
\* writes one close frame and calls no callback; from then on no step
\* writes to the connection or adds a callback of the heartbeat task, and
\* the one Close the heartbeat task can still call is that of the timeout,
\* in the step in which it returns.
C32_QuietAfterCancel ==
    /\ [][(hpc = "select" /\ hpc' # "select") =>
            /\ hpc' = "wait"
            /\ Len(wlog') = Len(wlog) + 1
            /\ wlog'[Len(wlog')].op = "close"
            /\ cbLog' = cbLog
            /\ closeLog' = closeLog]_vars
    /\ [][(hpc = "wait" \/ hpc = "exited") =>
            /\ wlog' = wlog
            /\ OnErrorsBy("heartbeat")' = OnErrorsBy("heartbeat")
            /\ hpc' \in {"wait", "exited"}
            /\ (CloseCount("heartbeat")' # CloseCount("heartbeat") =>
                  (/\ CloseCount("heartbeat") = 0
                   /\ CloseCount("heartbeat")' = 1
                   /\ hpc = "wait" /\ hpc' = "exited"
                   /\ hbExit' = "timeout"))]_vars

\* C32's case: the write of the close frame failed, no callback was called
\* for it, and the heartbeat task timed out, closed the connection and
\* returned.
C32_Witness ==
    /\ hpc = "exited"
    /\ hbExit = "timeout"
    /\ \E i \in CloseFrames : ~wlog[i].ok
    /\ OnErrorsBy("heartbeat") = {}
    /\ CloseCount("heartbeat") = 1

\* a base-10 integer as text: an optional sign and one or more digits
IsBase10Integer(s) ==
    LET ds == IF s # << >> /\ s[1] \in {"+", "-"} THEN Tail(s) ELSE s
    IN  ds # << >> /\ \A i \in 1..Len(ds) : ds[i] \in
            {"0", "1", "2", "3", "4", "5", "6", "7", "8", "9"}

\* C33: UnmarshalJSON on the bytes MarshalJSON(t) produced returns no error
\* and leaves a receiver with the Unix() of t; UnmarshalJSON on bytes that
\* are not a base-10 integer returns an error and leaves the receiver as it
\* was before the call.
C33_RoundTrip ==
    /\ (ts.err # "none" /\ ts.src = "marshal") =>
          /\ ts.err = "nil"
          /\ Unix(ts.recv) = Unix(ts.orig)
    /\ (ts.err # "none" /\ ~IsBase10Integer(ts.s)) =>
          /\ ts.err # "nil"
          /\ ts.recv = ts.prev

\* C33's case: a Timestamp before the epoch, with nanoseconds, was
\* marshalled and its bytes were unmarshalled into a receiver that held
\* another time.
C33_Witness ==
    /\ ts.src = "marshal"
    /\ ts.err = "nil"
    /\ Unix(ts.orig) < 0
    /\ ts.orig.nsec # 0
    /\ Unix(ts.prev) # Unix(ts.orig)
    /\ Len(ts.s) = 3

==========================================================================
